---- MODULE Spec2Model ----
(***************************************************************************)
(* Model of the traversal id mapping layer (crud/mapper.py: Mapper,        *)
(* IdMapper, Base64UUIDMapper) and of the first-user admin bootstrap       *)
(* (user/usermixin.py: init_empty_site, check_empty_site_init).            *)
(*                                                                         *)
(* Python values are tagged records, strings are sequences of one-char     *)
(* strings, and the result of a call is an outcome: a returned value or a  *)
(* raised exception class.                                                 *)
(***************************************************************************)
EXTENDS Integers, Sequences, FiniteSets, TLC

\* ------------------------------------------------------------- bounds
\* Longest enumerated path segment (in characters).
MaxLen == 2
\* Largest enumerated integer id.
MaxId == 12
\* UUID values are enumerated by seed 0..MaxUuid.
MaxUuid == 2
\* Number of request threads calling into one mapper.
NumThreads == 2
\* Number of check_empty_site_init calls in one run.
MaxCalls == 4
\* Users 1..MaxUser are flushed (id set); user 0 is not flushed yet.
MaxUser == 3

\* ------------------------------------------------------------- values
NoneV == [t |-> "None"]
IntV(n) == [t |-> "int", i |-> n]
StrV(s) == [t |-> "str", s |-> s]
BoolV(b) == [t |-> "bool", b |-> b]
UuidV(bs) == [t |-> "UUID", bytes |-> bs]

Return(v) == [kind |-> "return", value |-> v]
Raise(e) == [kind |-> "raise", exc |-> e]

\* ------------------------------------------------------------- characters
\* "U+0663" is ARABIC-INDIC DIGIT THREE (category Nd); "U+00B2" is
\* SUPERSCRIPT TWO (category No, Numeric_Type=Digit).
AsciiDigits == <<"0", "1", "2", "3", "4", "5", "6", "7", "8", "9">>
AsciiDigitSet == {AsciiDigits[k] : k \in 1..10}
DecimalChars == AsciiDigitSet \cup {"U+0663"}
DigitChars == DecimalChars \cup {"U+00B2"}
SpaceChars == {" "}

\* The numeric value of a decimal character (unicodedata.decimal).
DecimalValue(c) ==
    IF c = "U+0663" THEN 3
    ELSE (CHOOSE k \in 1..10 : AsciiDigits[k] = c) - 1

\* Characters path segments are enumerated over.
Alphabet == {"0", "7", "a", "-", " ", "_", "U+00B2", "U+0663"}

RECURSIVE StringsUpTo(_)
StringsUpTo(n) ==
    IF n = 0 THEN {<<>>}
    ELSE LET shorter == StringsUpTo(n - 1)
         IN  shorter \cup {Append(s, c) : s \in shorter, c \in Alphabet}

\* The segments the dispatcher hands over: every short string over the
\* alphabet, and the documented examples.
ExampleStrings == {<<"1", "2", "3">>, <<"a", "b", "c">>, <<"7", "_", "7">>, <<" ", "7", " ">>}
PathSegments == StringsUpTo(MaxLen) \cup ExampleStrings

\* ------------------------------------------------------------- builtins
\* str(n) for an integer: its decimal digits, "-" first when negative.
RECURSIVE NatDigits(_)
NatDigits(n) ==
    IF n < 10 THEN <<AsciiDigits[n + 1]>>
    ELSE Append(NatDigits(n \div 10), AsciiDigits[(n % 10) + 1])

HexDigits == <<"0", "1", "2", "3", "4", "5", "6", "7", "8", "9", "a", "b", "c", "d", "e", "f">>

RECURSIVE HexOf(_)
HexOf(bs) ==
    IF bs = <<>> THEN <<>>
    ELSE <<HexDigits[(Head(bs) \div 16) + 1], HexDigits[(Head(bs) % 16) + 1]>> \o HexOf(Tail(bs))

\* builtin str: the type IdMapper.transform_to_path names.
py_str(v) ==
    CASE v.t = "int" -> Return(StrV(IF v.i < 0 THEN <<"-">> \o NatDigits(-v.i) ELSE NatDigits(v.i)))
      [] v.t = "str" -> Return(v)
      [] v.t = "None" -> Return(StrV(<<"N", "o", "n", "e">>))
      [] v.t = "bool" -> Return(StrV(IF v.b THEN <<"T", "r", "u", "e">> ELSE <<"F", "a", "l", "s", "e">>))
      [] v.t = "UUID" ->
           LET h == HexOf(v.bytes)
           IN  Return(StrV(SubSeq(h, 1, 8) \o <<"-">> \o SubSeq(h, 9, 12) \o <<"-">>
                           \o SubSeq(h, 13, 16) \o <<"-">> \o SubSeq(h, 17, 20) \o <<"-">>
                           \o SubSeq(h, 21, 32)))

RECURSIVE StripLeft(_)
StripLeft(s) ==
    IF s # <<>> /\ Head(s) \in SpaceChars THEN StripLeft(Tail(s)) ELSE s

RECURSIVE StripRight(_)
StripRight(s) ==
    IF s # <<>> /\ s[Len(s)] \in SpaceChars THEN StripRight(SubSeq(s, 1, Len(s) - 1)) ELSE s

\* The digits of a literal: decimal characters, with single underscores
\* allowed between two digits only.
ValidDigits(d) ==
    /\ d # <<>>
    /\ \A k \in 1..Len(d) : d[k] \in DecimalChars \cup {"_"}
    /\ d[1] # "_"
    /\ d[Len(d)] # "_"
    /\ \A k \in 1..(Len(d) - 1) : ~(d[k] = "_" /\ d[k + 1] = "_")

RECURSIVE DigitsValue(_, _)
DigitsValue(d, acc) ==
    IF d = <<>> THEN acc
    ELSE IF Head(d) = "_" THEN DigitsValue(Tail(d), acc)
    ELSE DigitsValue(Tail(d), acc * 10 + DecimalValue(Head(d)))

\* builtin int on one argument: the type IdMapper.transform_to_id names.
\* A string is parsed in base 10: surrounding whitespace, one optional sign,
\* then the digits; anything else is a ValueError.
py_int(v) ==
    CASE v.t = "int" -> Return(v)
      [] v.t = "bool" -> Return(IntV(IF v.b THEN 1 ELSE 0))
      [] v.t = "str" ->
           LET body == StripRight(StripLeft(v.s))
               signed == body # <<>> /\ Head(body) \in {"+", "-"}
               digits == IF signed THEN Tail(body) ELSE body
           IN  IF ValidDigits(digits)
               THEN Return(IntV(IF signed /\ Head(body) = "-"
                                THEN -DigitsValue(digits, 0)
                                ELSE DigitsValue(digits, 0)))
               ELSE Raise("ValueError")
      [] OTHER -> Raise("TypeError")

\* str.isdigit: at least one character, and every character a digit.
RECURSIVE AllDigits(_)
AllDigits(s) ==
    IF s = <<>> THEN TRUE
    ELSE Head(s) \in DigitChars /\ AllDigits(Tail(s))

str_isdigit(s) == s # <<>> /\ AllDigits(s)

\* ------------------------------------------------------------- utils.slug
\* A UUID is UuidBytes bytes; its slug is the base64 text of the bytes with
\* the padding removed and the two characters a URL dislikes replaced.
UuidBytes == 16

B64Alphabet ==
    <<
       "A", "B", "C", "D", "E", "F", "G", "H", "I", "J", "K", "L", "M", "N", "O", "P",
       "Q", "R", "S", "T", "U", "V", "W", "X", "Y", "Z", "a", "b", "c", "d", "e", "f",
       "g", "h", "i", "j", "k", "l", "m", "n", "o", "p", "q", "r", "s", "t", "u", "v",
       "w", "x", "y", "z", "0", "1", "2", "3", "4", "5", "6", "7", "8", "9", "+", "/"
    >>

B64Index(c) == CHOOSE k \in 1..64 : B64Alphabet[k] = c
B64Chars == {B64Alphabet[k] : k \in 1..64}

\* base64.b64encode: three bytes give four characters; a last group of one
\* or two bytes is padded with "=".
RECURSIVE B64Encode(_)
B64Encode(bs) ==
    IF bs = <<>> THEN <<>>
    ELSE IF Len(bs) = 1 THEN
        <<B64Alphabet[(bs[1] \div 4) + 1], B64Alphabet[((bs[1] % 4) * 16) + 1], "=", "=">>
    ELSE IF Len(bs) = 2 THEN
        <<B64Alphabet[(bs[1] \div 4) + 1],
          B64Alphabet[((bs[1] % 4) * 16 + (bs[2] \div 16)) + 1],
          B64Alphabet[((bs[2] % 16) * 4) + 1], "=">>
    ELSE
        <<B64Alphabet[(bs[1] \div 4) + 1],
          B64Alphabet[((bs[1] % 4) * 16 + (bs[2] \div 16)) + 1],
          B64Alphabet[((bs[2] % 16) * 4 + (bs[3] \div 64)) + 1],
          B64Alphabet[(bs[3] % 64) + 1]>> \o B64Encode(SubSeq(bs, 4, Len(bs)))

RECURSIVE SextetsToBytes(_)
SextetsToBytes(q) ==
    IF Len(q) < 2 THEN <<>>
    ELSE IF Len(q) = 2 THEN <<q[1] * 4 + (q[2] \div 16)>>
    ELSE IF Len(q) = 3 THEN <<q[1] * 4 + (q[2] \div 16), (q[2] % 16) * 16 + (q[3] \div 4)>>
    ELSE <<q[1] * 4 + (q[2] \div 16), (q[2] % 16) * 16 + (q[3] \div 4), (q[3] % 4) * 64 + q[4]>>
         \o SextetsToBytes(SubSeq(q, 5, Len(q)))

\* base64.b64decode without validation: characters outside the alphabet are
\* discarded, the data must not end one character past a group of four, and
\* the padding must complete the last group. Returns the bytes, or "error".
B64Decode(s) ==
    LET data == SelectSeq(s, LAMBDA c : c \in B64Chars)
        pads == Len(SelectSeq(s, LAMBDA c : c = "="))
        rest == Len(data) % 4
    IN  IF rest = 1 \/ (rest # 0 /\ pads < 4 - rest) THEN "error"
        ELSE SextetsToBytes([k \in 1..Len(data) |-> B64Index(data[k]) - 1])

RECURSIVE RStrip(_, _)
RStrip(s, cs) ==
    IF s # <<>> /\ s[Len(s)] \in cs THEN RStrip(SubSeq(s, 1, Len(s) - 1), cs) ELSE s

Replace(s, from, to) == [k \in 1..Len(s) |-> IF s[k] = from THEN to ELSE s[k]]

\* slug.uuid_to_slug(uuid_): reads uuid_.bytes, so anything but a UUID is an
\* AttributeError.
uuid_to_slug(v) ==
    IF v.t # "UUID" THEN Raise("AttributeError")
    ELSE Return(StrV(Replace(Replace(RStrip(B64Encode(v.bytes), {"=", "\n"}), "/", "_"), "+", "-")))

\* slug.slug_to_uuid(slug): decodes slug + "==" and builds the UUID from the
\* bytes, which must be exactly UuidBytes of them.
slug_to_uuid(v) ==
    IF v.t # "str" THEN Raise("TypeError")
    ELSE LET bs == B64Decode(Replace(Replace(v.s \o <<"=", "=">>, "_", "/"), "-", "+"))
         IN  IF bs = "error" THEN Raise("ValueError")
             ELSE IF Len(bs) # UuidBytes THEN Raise("ValueError")
             ELSE Return(UuidV(bs))

\* The UUID values objects carry, by seed. Seed 0 is ff..ff, whose base64
\* text is all "/" and so exercises the replacement.
UuidOf(k) == UuidV([i \in 1..UuidBytes |-> (255 + k * (i * 37 + 11)) % 256])
Uuids == {UuidOf(k) : k \in 0..MaxUuid}

\* ------------------------------------------------------------- callables
\* Callables the caller may hand to the constructor in place of the class
\* defaults: a prefixed path, its parser, and a prefix test.
user_to_path(v) ==
    LET r == py_str(v)
    IN  IF r.kind = "raise" THEN r ELSE Return(StrV(<<"a">> \o r.value.s))

user_to_id(v) ==
    IF v.t # "str" THEN Raise("TypeError")
    ELSE IF v.s # <<>> /\ Head(v.s) = "a" THEN py_int(StrV(Tail(v.s)))
    ELSE Raise("ValueError")

user_is_id(v) ==
    IF v.t # "str" THEN Raise("AttributeError")
    ELSE Return(BoolV(v.s # <<>> /\ Head(v.s) = "a"))

\* As IdMapper_is_id, with the test written as all(c.isdigit() for c in
\* value), which is true of the empty string.
IdMapper_is_id_all(value) ==
    IF value.t # "str" THEN Raise("AttributeError")
    ELSE Return(BoolV(AllDigits(value.s)))

\* IdMapper.is_id: lambda value: value.isdigit()
IdMapper_is_id(value) ==
    IF value.t # "str" THEN Raise("AttributeError")
    ELSE Return(BoolV(str_isdigit(value.s)))

\* Base64UUIDMapper.is_id: lambda x: True
Base64UUIDMapper_is_id(x) == Return(BoolV(TRUE))

\* The number of positional parameters each callable takes.
Arity(fn) == 1

\* fn(arg), for a callable given by name.
Apply(fn, arg) ==
    CASE fn = "str" -> py_str(arg)
      [] fn = "int" -> py_int(arg)
      [] fn = "IdMapper.is_id" -> IdMapper_is_id(arg)
      [] fn = "Base64UUIDMapper.is_id" -> Base64UUIDMapper_is_id(arg)
      [] fn = "slug.uuid_to_slug" -> uuid_to_slug(arg)
      [] fn = "slug.slug_to_uuid" -> slug_to_uuid(arg)
      [] fn = "user_to_path" -> user_to_path(arg)
      [] fn = "user_to_id" -> user_to_id(arg)
      [] fn = "user_is_id" -> user_is_id(arg)

\* ------------------------------------------------------------- classes
\* A class attribute that is called is a builtin type (str, int), a
\* staticmethod wrapper, or a plain Python function. Only the plain function
\* is a descriptor that binds the instance as first argument when it is read
\* through an instance.
Slots == {"mapping_attribute", "transform_to_path", "transform_to_id", "is_id"}
CallSlots == Slots \ {"mapping_attribute"}

\* As IdMapperClass, with the two transforms assigned the wrong way round.
IdMapperClass_swapped ==
    [mapping_attribute |-> "id",
     transform_to_path |-> [kind |-> "type", fn |-> "int"],
     transform_to_id |-> [kind |-> "type", fn |-> "str"],
     is_id |-> [kind |-> "staticmethod", fn |-> "IdMapper.is_id"]]

IdMapperClass ==
    [mapping_attribute |-> "id",
     transform_to_path |-> [kind |-> "type", fn |-> "str"],
     transform_to_id |-> [kind |-> "type", fn |-> "int"],
     is_id |-> [kind |-> "staticmethod", fn |-> "IdMapper.is_id"]]

Base64UUIDMapperClass ==
    [mapping_attribute |-> "uuid",
     transform_to_id |-> [kind |-> "function", fn |-> "slug.uuid_to_slug"],
     transform_to_path |-> [kind |-> "function", fn |-> "slug.slug_to_uuid"],
     is_id |-> [kind |-> "function", fn |-> "Base64UUIDMapper.is_id"]]

Classes == {"IdMapper", "Base64UUIDMapper"}

\* The method resolution order: Base64UUIDMapper, then IdMapper.
ClassAttr(cls, name) ==
    IF cls = "Base64UUIDMapper" /\ name \in DOMAIN Base64UUIDMapperClass
    THEN Base64UUIDMapperClass[name]
    ELSE IdMapperClass[name]

\* Constructor arguments: None, an attribute name, or a callable.
NameV(n) == [t |-> "str", name |-> n]
FuncV(fn) == [t |-> "function", fn |-> fn]

\* Python truth of a constructor argument: None and "" are false.
Truthy(v) ==
    CASE v.t = "None" -> FALSE
      [] v.t = "str" -> v.name # ""
      [] v.t = "function" -> TRUE

\* As IdMapper_init, with the mapping_attribute argument never stored.
IdMapper_init_drops_attribute(cls, mapping_attribute, transform_to_path, transform_to_id, is_id) ==
    LET given == [transform_to_path |-> transform_to_path,
                  transform_to_id |-> transform_to_id,
                  is_id |-> is_id]
    IN  [cls |-> cls,
         dict |-> [n \in {m \in CallSlots : Truthy(given[m])} |-> given[n]]]

\* IdMapper.__init__: an argument that is true is stored on the instance;
\* the instance dictionary holds nothing for the others.
IdMapper_init(cls, mapping_attribute, transform_to_path, transform_to_id, is_id) ==
    LET given == [mapping_attribute |-> mapping_attribute,
                  transform_to_path |-> transform_to_path,
                  transform_to_id |-> transform_to_id,
                  is_id |-> is_id]
    IN  [cls |-> cls,
         dict |-> [n \in {m \in Slots : Truthy(given[m])} |-> given[n]]]

\* self.mapping_attribute
MappingAttribute(self) ==
    IF "mapping_attribute" \in DOMAIN self.dict
    THEN self.dict["mapping_attribute"].name
    ELSE ClassAttr(self.cls, "mapping_attribute")

\* self.<name> for a called slot: the instance dictionary first, then the
\* class, where a plain function comes back bound to self.
GetCallable(self, name) ==
    IF name \in DOMAIN self.dict
    THEN [fn |-> self.dict[name].fn, bound |-> FALSE]
    ELSE LET a == ClassAttr(self.cls, name)
         IN  [fn |-> a.fn, bound |-> a.kind = "function"]

\* c(arg): a bound method passes self and arg, and a callable that takes a
\* different number of arguments raises TypeError before it runs.
CallWith(c, arg) ==
    LET passed == IF c.bound THEN 2 ELSE 1
    IN  IF passed # Arity(c.fn) THEN Raise("TypeError") ELSE Apply(c.fn, arg)

\* As py_getattr, with a default: getattr(obj, name, None).
py_getattr_default(obj, name) ==
    IF name \in DOMAIN obj THEN Return(obj[name]) ELSE Return(NoneV)

\* getattr(obj, name)
py_getattr(obj, name) ==
    IF name \in DOMAIN obj THEN Return(obj[name]) ELSE Raise("AttributeError")

\* ------------------------------------------------------------- methods
\* Each method gives the outcome of the call and the mapper (and object) it
\* leaves behind.
get_path_from_object(self, obj) ==
    LET f == GetCallable(self, "transform_to_path")
        a == py_getattr(obj, MappingAttribute(self))
    IN  [self |-> self, obj |-> obj,
         out |-> IF a.kind = "raise" THEN a ELSE CallWith(f, a.value)]

\* As get_id_from_path, with the callable it resolved kept on the instance
\* for the next call.
get_id_from_path_caching(self, path) ==
    LET f == GetCallable(self, "transform_to_id")
    IN  [self |-> [self EXCEPT !.dict =
                       [n \in DOMAIN self.dict \cup {"transform_to_id"} |->
                           IF n = "transform_to_id" THEN FuncV(f.fn) ELSE self.dict[n]]],
         out |-> CallWith(f, path)]

get_id_from_path(self, path) ==
    [self |-> self, out |-> CallWith(GetCallable(self, "transform_to_id"), path)]

is_id(self, path) ==
    [self |-> self, out |-> CallWith(GetCallable(self, "is_id"), path)]

\* ------------------------------------------------------------- inputs
\* The domain objects handed to get_path_from_object.
Objects ==
    [n \in 1..(MaxId + 1) |-> [id |-> IntV(n - 1)]]
    \o [k \in 1..(MaxUuid + 1) |-> [uuid |-> UuidOf(k - 1)]]
    \o <<[id |-> IntV(7), external_ref |-> IntV(3)],
         [id |-> IntV(1), uuid |-> UuidOf(0), external_ref |-> UuidOf(1)],
         [id |-> NoneV],
         [name |-> StrV(<<"a">>)]>>

\* The segments handed to get_id_from_path and is_id: the enumerated ones
\* and the slugs of the UUIDs.
PathInputs == PathSegments \cup {uuid_to_slug(u).value.s : u \in Uuids}

\* What the constructor may be given for each argument.
AttributeArgs == {NoneV, NameV(""), NameV("external_ref")}
ToPathArgs == {NoneV, FuncV("slug.uuid_to_slug"), FuncV("user_to_path")}
ToIdArgs == {NoneV, FuncV("slug.slug_to_uuid"), FuncV("user_to_id")}
IsIdArgs == {NoneV, FuncV("user_is_id")}

\* The calls request threads make concurrently.
ThreadCalls ==
    {[op |-> "get_path_from_object", arg |-> [obj |-> 1]],
     [op |-> "get_path_from_object", arg |-> [obj |-> Len(Objects)]],
     [op |-> "get_id_from_path", arg |-> StrV(<<"7">>)],
     [op |-> "get_id_from_path", arg |-> StrV(<<"a">>)],
     [op |-> "is_id", arg |-> StrV(<<"7">>)],
     [op |-> "is_id", arg |-> StrV(<<"a">>)]}

Threads == 1..NumThreads

\* ------------------------------------------------------------- state
VARIABLES
    mapper,     \* the mapper instance: its class and instance dictionary
    given,      \* the arguments the mapper was constructed with
    objs,       \* the domain objects
    last,       \* the last call made by the dispatcher and its outcome
    frames,     \* per request thread: the call in progress and its outcome
    db,         \* the database session: pending and flushed groups
    calls,      \* the ids of the users check_empty_site_init was called with
    result,     \* the outcome of the last check_empty_site_init call
    seed,       \* the groups the session started with
    optimize    \* whether the interpreter runs with assert statements stripped

mapperVars == <<mapper, given, objs, last, frames>>
siteVars == <<db, calls, result, seed, optimize>>
vars == <<mapper, given, objs, last, frames, db, calls, result, seed, optimize>>

NoMapper == [cls |-> "none", dict |-> <<>>]
NoArgs ==
    [cls |-> "none", mapping_attribute |-> NoneV, transform_to_path |-> NoneV,
     transform_to_id |-> NoneV, is_id |-> NoneV]
NoCall == [op |-> "none", arg |-> NoneV, out |-> Return(NoneV)]
IdleFrame == [pc |-> "idle", op |-> "none", arg |-> NoneV, out |-> Return(NoneV)]
EmptySession == [pending |-> <<>>, flushed |-> <<>>]

MapperInit ==
    /\ mapper = NoMapper
    /\ given = NoArgs
    /\ objs = Objects
    /\ last = NoCall
    /\ frames = [t \in Threads |-> IdleFrame]

SiteIdle ==
    /\ db = EmptySession
    /\ calls = <<>>
    /\ result = Return(NoneV)
    /\ seed = <<>>
    /\ optimize = FALSE

\* ------------------------------------------------------------- mapper actions
\* mapper = <cls>(mapping_attribute, transform_to_path, transform_to_id, is_id)
New(cls, ma, tp, ti, ii) ==
    /\ mapper = NoMapper
    /\ mapper' = IdMapper_init(cls, ma, tp, ti, ii)
    /\ given' = [cls |-> cls, mapping_attribute |-> ma, transform_to_path |-> tp,
                 transform_to_id |-> ti, is_id |-> ii]
    /\ UNCHANGED <<objs, last, frames>>
    /\ UNCHANGED siteVars

CallGetPath(k) ==
    /\ mapper # NoMapper
    /\ last = NoCall
    /\ LET r == get_path_from_object(mapper, objs[k])
       IN  /\ mapper' = r.self
           /\ objs' = [objs EXCEPT ![k] = r.obj]
           /\ last' = [op |-> "get_path_from_object", arg |-> [obj |-> k], out |-> r.out]
    /\ UNCHANGED <<given, frames>>
    /\ UNCHANGED siteVars

CallGetId(s) ==
    /\ mapper # NoMapper
    /\ last = NoCall
    /\ LET r == get_id_from_path(mapper, StrV(s))
       IN  /\ mapper' = r.self
           /\ last' = [op |-> "get_id_from_path", arg |-> StrV(s), out |-> r.out]
    /\ UNCHANGED <<given, objs, frames>>
    /\ UNCHANGED siteVars

CallIsId(s) ==
    /\ mapper # NoMapper
    /\ last = NoCall
    /\ LET r == is_id(mapper, StrV(s))
       IN  /\ mapper' = r.self
           /\ last' = [op |-> "is_id", arg |-> StrV(s), out |-> r.out]
    /\ UNCHANGED <<given, objs, frames>>
    /\ UNCHANGED siteVars

\* The dispatcher is done with the outcome and takes the next segment.
Respond ==
    /\ last # NoCall
    /\ last' = NoCall
    /\ UNCHANGED <<mapper, given, objs, frames>>
    /\ UNCHANGED siteVars

Construct ==
    \E cls \in Classes, ma \in AttributeArgs, tp \in ToPathArgs, ti \in ToIdArgs, ii \in IsIdArgs :
        New(cls, ma, tp, ti, ii)

GetPath == \E k \in 1..Len(Objects) : CallGetPath(k)
GetId == \E s \in PathInputs : CallGetId(s)
IsId == \E s \in PathInputs : CallIsId(s)

NextMapper == Construct \/ GetPath \/ GetId \/ IsId \/ Respond

\* One dispatcher calling into one mapper, one call after the other.
InitMapper == MapperInit /\ SiteIdle

SpecMapper == InitMapper /\ [][NextMapper]_vars

\* ------------------------------------------------------------- threads
\* A request thread enters a call ...
Invoke(t, c) ==
    /\ mapper # NoMapper
    /\ frames[t].pc \in {"idle", "done"}
    /\ frames' = [frames EXCEPT ![t] = [pc |-> "running", op |-> c.op, arg |-> c.arg,
                                        out |-> Return(NoneV)]]
    /\ UNCHANGED <<mapper, given, objs, last>>
    /\ UNCHANGED siteVars

\* The outcome of a call, and the mapper and objects it leaves behind.
Run(self, heap, op, arg) ==
    CASE op = "get_path_from_object" ->
           LET r == get_path_from_object(self, heap[arg.obj])
           IN  [self |-> r.self, heap |-> [heap EXCEPT ![arg.obj] = r.obj], out |-> r.out]
      [] op = "get_id_from_path" ->
           LET r == get_id_from_path(self, arg)
           IN  [self |-> r.self, heap |-> heap, out |-> r.out]
      [] op = "is_id" ->
           LET r == is_id(self, arg)
           IN  [self |-> r.self, heap |-> heap, out |-> r.out]

\* ... and leaves it with the outcome.
Finish(t) ==
    /\ frames[t].pc = "running"
    /\ LET r == Run(mapper, objs, frames[t].op, frames[t].arg)
       IN  /\ mapper' = r.self
           /\ objs' = r.heap
           /\ frames' = [frames EXCEPT ![t].pc = "done", ![t].out = r.out]
    /\ UNCHANGED <<given, last>>
    /\ UNCHANGED siteVars

Enter == \E t \in Threads, c \in ThreadCalls : Invoke(t, c)
Leave == \E t \in Threads : Finish(t)

NextThreads == Construct \/ Enter \/ Leave

\* Request threads calling into one mapper with no coordination.
SpecThreads == InitMapper /\ [][NextThreads]_vars

\* ------------------------------------------------------------- first user
\* UserMixin.GROUP_ADMIN
GROUP_ADMIN == "admin"

\* The users of the site. A user's id is set when the user is flushed; user 0
\* stands for a user whose id is still unset.
Users == 0..MaxUser

\* The group tables a session may start with.
SeedGroups == {<<>>, <<[name |-> "editors", users |-> <<>>]>>}

\* dbsession.query(Group).count(): the session flushes what was added to it
\* before it queries, so the count sees every group added so far.
QueryCount(session) ==
    LET flushed == session.flushed \o session.pending
    IN  [session |-> [pending |-> <<>>, flushed |-> flushed], count |-> Len(flushed)]

\* dbsession.add(g)
SessionAdd(session, g) == [session EXCEPT !.pending = Append(@, g)]

\* Every group of the session, added or flushed.
AllGroups(session) == session.flushed \o session.pending

\* init_empty_site(dbsession, user): the session it leaves behind.
init_empty_site(session, user) ==
    LET q == QueryCount(session)
    IN  IF q.count > 0 THEN q.session
        ELSE SessionAdd(q.session, [name |-> GROUP_ADMIN, users |-> <<user>>])

\* As check_empty_site_init, with the admin group built in place and no look
\* at the groups there are.
check_empty_site_init_unguarded(session, user, stripped) ==
    IF ~stripped /\ user = 0
    THEN [session |-> session, out |-> Raise("AssertionError")]
    ELSE [session |-> SessionAdd(session, [name |-> GROUP_ADMIN, users |-> <<user>>]),
          out |-> Return(NoneV)]

\* check_empty_site_init(dbsession, user): the outcome and the session it
\* leaves behind. The assert statement is absent when the interpreter strips
\* assertions.
check_empty_site_init(session, user, stripped) ==
    IF ~stripped /\ user = 0
    THEN [session |-> session, out |-> Raise("AssertionError")]
    ELSE LET q == QueryCount(session)
         IN  IF q.count > 0
             THEN [session |-> q.session, out |-> Return(NoneV)]
             ELSE [session |-> init_empty_site(q.session, user), out |-> Return(NoneV)]

\* UserMixin.is_in_group(name): user.groups are the groups the user is in.
is_in_group(session, user, name) ==
    LET gs == AllGroups(session)
    IN  \E k \in 1..Len(gs) :
            /\ gs[k].name = name
            /\ \E j \in 1..Len(gs[k].users) : gs[k].users[j] = user

\* UserMixin.is_admin()
is_admin(session, user) == is_in_group(session, user, GROUP_ADMIN)

InitSite ==
    /\ MapperInit
    /\ seed \in SeedGroups
    /\ db = [pending |-> <<>>, flushed |-> seed]
    /\ calls = <<>>
    /\ result = Return(NoneV)
    /\ optimize \in BOOLEAN

\* A sign-up: check_empty_site_init(dbsession, user) after the user is created.
SignUp(user) ==
    /\ Len(calls) < MaxCalls
    /\ LET r == check_empty_site_init(db, user, optimize)
       IN  /\ db' = r.session
           /\ result' = r.out
    /\ calls' = Append(calls, user)
    /\ UNCHANGED <<seed, optimize>>
    /\ UNCHANGED mapperVars

NextSite == \E user \in Users : SignUp(user)

\* Users signing up one after the other on one session.
SpecSite == InitSite /\ [][NextSite]_vars

\* ------------------------------------------------------------- properties
\* The mapper was constructed with no argument.
DefaultMapper(cls) == mapper.cls = cls /\ DOMAIN mapper.dict = {}

\* The object the last get_path_from_object call was given.
LastObject == objs[last.arg.obj]

\* C1: for a default Base64UUIDMapper and an object whose uuid is u,
\* get_path_from_object returns the base64 slug of u, and get_id_from_path of
\* that slug returns u.
C1_UuidRoundTrip ==
    (/\ DefaultMapper("Base64UUIDMapper")
     /\ last.op = "get_path_from_object"
     /\ "uuid" \in DOMAIN LastObject)
    => /\ last.out = uuid_to_slug(LastObject.uuid)
       /\ get_id_from_path(mapper, last.out.value).out = Return(LastObject.uuid)

\* C2: for a default IdMapper and an object whose id is a non-negative
\* integer n, get_id_from_path(get_path_from_object(obj)) returns n.
C2_IntRoundTrip ==
    (/\ DefaultMapper("IdMapper")
     /\ last.op = "get_path_from_object"
     /\ "id" \in DOMAIN LastObject
     /\ LastObject.id.t = "int"
     /\ LastObject.id.i >= 0)
    => /\ last.out.kind = "return"
       /\ last.out.value.t = "str"
       /\ get_id_from_path(mapper, last.out.value).out = Return(LastObject.id)

\* A two-digit id went to its path and the path parses back to it.
C2_Witness ==
    /\ DefaultMapper("IdMapper")
    /\ last.op = "get_path_from_object"
    /\ LastObject = [id |-> IntV(10)]
    /\ last.out = Return(StrV(<<"1", "0">>))
    /\ get_id_from_path(mapper, last.out.value).out = Return(IntV(10))

\* C3: is_id on a default Base64UUIDMapper returns True for every string and
\* raises for none.
C3_OpaqueIsIdTotal ==
    (DefaultMapper("Base64UUIDMapper") /\ last.op = "is_id")
    => last.out = Return(BoolV(TRUE))

\* C4: is_id on a default IdMapper returns True exactly for the non-empty
\* strings made of digit characters only: True for "123", False for "abc" and
\* for "", and it raises for no string.
C4_IntIsId ==
    (DefaultMapper("IdMapper") /\ last.op = "is_id")
    => /\ last.out.kind = "return"
       /\ last.out.value.t = "bool"
       /\ last.out.value.b
            <=> (/\ Len(last.arg.s) > 0
                 /\ \A k \in 1..Len(last.arg.s) : last.arg.s[k] \in DigitChars)
       /\ last.arg.s = <<"1", "2", "3">> => last.out = Return(BoolV(TRUE))
       /\ last.arg.s = <<"a", "b", "c">> => last.out = Return(BoolV(FALSE))
       /\ last.arg.s = <<>> => last.out = Return(BoolV(FALSE))

\* is_id("123") returned True on a default IdMapper.
C4_Witness ==
    /\ DefaultMapper("IdMapper")
    /\ last.op = "is_id"
    /\ last.arg = StrV(<<"1", "2", "3">>)
    /\ last.out = Return(BoolV(TRUE))

\* What a segment decodes to for the type a variant maps to: an integer for
\* IdMapper, a UUID for Base64UUIDMapper.
DecodeFor(cls, path) == IF cls = "IdMapper" THEN py_int(path) ELSE slug_to_uuid(path)

\* C5: get_id_from_path returns the decoded identifier, and a segment that is
\* no valid encoding for the variant's type ends the call in a parse error at
\* the caller: never a returned sentinel, never another outcome.
C5_ParseErrorPropagates ==
    (/\ mapper # NoMapper
     /\ DOMAIN mapper.dict = {}
     /\ last.op = "get_id_from_path")
    => IF DecodeFor(mapper.cls, last.arg).kind = "raise"
       THEN last.out = Raise("ValueError")
       ELSE last.out = DecodeFor(mapper.cls, last.arg)

\* The integer variant's part of C5: on a default IdMapper a non-numeric
\* segment raises ValueError and a numeric one returns its integer.
C5_IntegerVariant ==
    (DefaultMapper("IdMapper") /\ last.op = "get_id_from_path")
    => /\ last.out = py_int(last.arg)
       /\ last.arg.s = <<"a", "b", "c">> => last.out = Raise("ValueError")

\* The attribute name and the callables the constructor arguments stand for:
\* the argument where one was given (None and "" count as not given), the
\* class default otherwise.
EffectiveName ==
    IF Truthy(given.mapping_attribute)
    THEN given.mapping_attribute.name
    ELSE ClassAttr(given.cls, "mapping_attribute")

EffectiveCall(slot) ==
    IF Truthy(given[slot])
    THEN [fn |-> given[slot].fn, bound |-> FALSE]
    ELSE [fn |-> ClassAttr(given.cls, slot).fn,
          bound |-> ClassAttr(given.cls, slot).kind = "function"]

\* C6: each of the four behaviours is the constructor's override when one was
\* given and the class default otherwise, one by one, and every later call
\* goes through them; with mapping_attribute="external_ref" alone,
\* get_path_from_object reads obj.external_ref.
C6_Overrides ==
    mapper # NoMapper =>
        /\ mapper.cls = given.cls
        /\ MappingAttribute(mapper) = EffectiveName
        /\ \A slot \in CallSlots : GetCallable(mapper, slot) = EffectiveCall(slot)
        /\ last.op = "get_path_from_object" =>
             last.out = IF EffectiveName \in DOMAIN LastObject
                        THEN CallWith(EffectiveCall("transform_to_path"), LastObject[EffectiveName])
                        ELSE Raise("AttributeError")
        /\ last.op = "get_id_from_path" =>
             last.out = CallWith(EffectiveCall("transform_to_id"), last.arg)
        /\ last.op = "is_id" =>
             last.out = CallWith(EffectiveCall("is_id"), last.arg)
        /\ (/\ given = [NoArgs EXCEPT !.cls = "IdMapper",
                                      !.mapping_attribute = NameV("external_ref")]
            /\ last.op = "get_path_from_object"
            /\ LastObject = [id |-> IntV(7), external_ref |-> IntV(3)])
           => last.out = Return(StrV(<<"3">>))

\* An IdMapper given mapping_attribute="external_ref" alone returned the path
\* of external_ref, not of id.
C6_Witness ==
    /\ given = [NoArgs EXCEPT !.cls = "IdMapper", !.mapping_attribute = NameV("external_ref")]
    /\ last.op = "get_path_from_object"
    /\ LastObject = [id |-> IntV(7), external_ref |-> IntV(3)]
    /\ last.out = Return(StrV(<<"3">>))

\* C7: get_path_from_object reads the configured attribute off the object and
\* returns what transform_to_path makes of its value; on an object without
\* the attribute the call raises AttributeError and returns no path.
C7_MissingAttribute ==
    (mapper # NoMapper /\ last.op = "get_path_from_object")
    => IF MappingAttribute(mapper) \in DOMAIN LastObject
       THEN last.out = CallWith(GetCallable(mapper, "transform_to_path"),
                                LastObject[MappingAttribute(mapper)])
       ELSE last.out = Raise("AttributeError")

\* get_path_from_object on an object without the configured attribute raised
\* AttributeError.
C7_Witness ==
    /\ mapper # NoMapper
    /\ last.op = "get_path_from_object"
    /\ MappingAttribute(mapper) \notin DOMAIN LastObject
    /\ last.out = Raise("AttributeError")

\* C8: once constructed, the mapper and the objects never change, whatever
\* calls the threads interleave and however they end, and every finished
\* call has the outcome the same call has alone on the mapper as constructed.
C8_Stateless ==
    /\ [](\A t \in Threads :
            frames[t].pc = "done" =>
                frames[t].out =
                    Run(IdMapper_init(given.cls, given.mapping_attribute, given.transform_to_path,
                                      given.transform_to_id, given.is_id),
                        Objects, frames[t].op, frames[t].arg).out)
    /\ [][mapper # NoMapper => (mapper' = mapper /\ objs' = objs)]_vars

\* One thread's call ended in an error while another thread is inside a call.
C8_Witness ==
    /\ frames[1].pc = "done"
    /\ frames[1].out.kind = "raise"
    /\ frames[2].pc = "running"
    /\ frames[2].op = "get_id_from_path"

\* C9: on a session that starts with no groups, after sign-ups of flushed
\* users there is exactly one group, named GROUP_ADMIN, whose only member is
\* the first user; the first user is admin and no other is; and a call made
\* while a group exists adds no group and changes no membership.
C9_FirstUserAdmin ==
    /\ []((/\ seed = <<>>
           /\ Len(calls) >= 1
           /\ \A k \in 1..Len(calls) : calls[k] # 0)
          => /\ AllGroups(db) = <<[name |-> GROUP_ADMIN, users |-> <<calls[1]>>]>>
             /\ \A u \in Users : is_admin(db, u) <=> u = calls[1])
    /\ [][AllGroups(db) # <<>> => AllGroups(db') = AllGroups(db)]_vars

\* Two different flushed users signed up on an empty site: the first is
\* admin, the second is not.
C9_Witness ==
    /\ seed = <<>>
    /\ Len(calls) >= 2
    /\ calls[1] # 0
    /\ calls[2] # 0
    /\ calls[1] # calls[2]
    /\ is_admin(db, calls[1])
    /\ ~is_admin(db, calls[2])

\* C10: on a default IdMapper, every segment is_id accepts is one
\* get_id_from_path parses to a non-negative integer.
C10_AcceptedParses ==
    (/\ DefaultMapper("IdMapper")
     /\ last.op = "is_id"
     /\ last.out = Return(BoolV(TRUE)))
    => LET r == get_id_from_path(mapper, last.arg).out
       IN  /\ r.kind = "return"
           /\ r.value.t = "int"
           /\ r.value.i >= 0

====
